---- MODULE Spec2Model ----
(***************************************************************************)
(* wtf-ds.py: a profiler of line-delimited JSON.  main() feeds every       *)
(* decoded line to one root ValueAggregator and then prints the tree.      *)
(*                                                                         *)
(* Representation.                                                         *)
(*  - A decoded value is a record tagged with type(v).__name__ in field t. *)
(*    A str is the sequence of its characters, a dict the sequence of its  *)
(*    <<key, value>> items in insertion order, a float a whole number f    *)
(*    with its sign bit neg (0.0 and -0.0 are equal keys of a Python dict  *)
(*    and have different repr).                                            *)
(*  - A Python dict is a sequence in insertion order.                      *)
(*  - Text is a sequence of strings: one element per character of a JSON   *)
(*    string or key, one element per number or punctuation token.          *)
(*    colored.stylize only wraps text in colour codes and is left out.     *)
(*  - A call that can raise returns a record with an err field.            *)
(***************************************************************************)
EXTENDS Integers, Sequences, FiniteSets, TLC

VARIABLES stdin, v, out, pc, exc, leaf, text, s_in, s_out

vars == <<stdin, v, out, pc, exc, leaf, text, s_in, s_out>>

\* ---------------------------------------------------------------- bounds
\* Lines on standard input.
MaxLines == 3
\* add calls on the leaf aggregator of SpecLeaf.
MaxAdds == 5
\* Characters beyond MAX_STRING_LENGTH of the strings given to Cstr.
MaxExtra == 2

\* ------------------------------------------------------------- constants
MAX_STRING_LENGTH == 36
MAX_VALUES_TO_SHOW == 3
\* Python's None as the value of min_len and max_len before the first add.
None == -1

\* Tokens standing for the non-ASCII characters of the output.
Times == "*"
Ellipsis == "..."
LeftArrow == "<-"

\* ---------------------------------------------------------------- values
JInt(n) == [t |-> "int", i |-> n]
JFloat(n, neg) == [t |-> "float", f |-> n, neg |-> neg]
JStr(s) == [t |-> "str", s |-> s]
JBool(b) == [t |-> "bool", b |-> b]
JNull == [t |-> "NoneType"]
JList(a) == [t |-> "list", a |-> a]
JDict(items) == [t |-> "dict", d |-> items]
\* A line json.loads rejects.
Invalid == [t |-> "invalid"]

\* a == b of two str, int or float values: the sign of a float zero is not
\* part of it.
PyEq(a, b) ==
    CASE a.t = "str" -> a.s = b.s
      [] a.t = "int" -> a.i = b.i
      [] a.t = "float" -> a.f = b.f

\* Code point of a character.
Ord(c) ==
    CASE c = "\n" -> 10
      [] c = "\"" -> 34
      [] c = "\\" -> 92
      [] c = "a" -> 97
      [] c = "b" -> 98
      [] c = "c" -> 99
      [] c = "d" -> 100

\* a < b of two str objects: by code point, a proper prefix first.
RECURSIVE StrLess(_, _)
StrLess(a, b) ==
    IF b = <<>> THEN FALSE
    ELSE IF a = <<>> THEN TRUE
    ELSE IF Head(a) = Head(b) THEN StrLess(Tail(a), Tail(b))
    ELSE Ord(Head(a)) < Ord(Head(b))

\* a < b of two values of one leaf kind.
PyLess(a, b) ==
    CASE a.t = "str" -> StrLess(a.s, b.s)
      [] a.t = "int" -> a.i < b.i
      [] a.t = "float" -> a.f < b.f

\* ------------------------------------------------------------ formatting
Ckey(key) == key

Ctype(t) == <<t>>

\* json.dumps(s, ensure_ascii=False) of one character.
EscapeChar(c) ==
    CASE c = "\"" -> <<"\\", "\"">>
      [] c = "\\" -> <<"\\", "\\">>
      [] c = "\n" -> <<"\\", "n">>
      [] OTHER -> <<c>>

RECURSIVE Escape(_)
Escape(s) == IF s = <<>> THEN <<>> ELSE EscapeChar(Head(s)) \o Escape(Tail(s))

json_dumps(s) == <<"\"">> \o Escape(s) \o <<"\"">>

Cstr(s) ==
    IF Len(s) > MAX_STRING_LENGTH
    THEN LET d == json_dumps(SubSeq(s, 1, MAX_STRING_LENGTH))
             prefix == SubSeq(d, 1, Len(d) - 1)
             suffix == <<"\"">>
         IN prefix \o <<Ellipsis>> \o suffix
    ELSE json_dumps(s)

\* repr of an int or a float.
repr(x) ==
    IF x.t = "float"
    THEN IF x.f = 0 /\ x.neg THEN "-0.0" ELSE ToString(x.f) \o ".0"
    ELSE ToString(x.i)

Cnum(x) == <<repr(x)>>

Ccnt(n) == <<ToString(n)>>

Cbool(b) == <<IF b THEN "true" ELSE "false">>

\* sep.join(parts)
RECURSIVE Join(_, _)
Join(sep, parts) ==
    IF parts = <<>> THEN <<>>
    ELSE IF Len(parts) = 1 THEN parts[1]
    ELSE parts[1] \o sep \o Join(sep, Tail(parts))

CommaSpace == <<",", " ">>

\* --------------------------------------------------------- constructors
ValueAggregator_init == [by_type |-> <<>>]

DictAggregator_init ==
    [TYPE_NAME |-> "map", keys |-> <<>>, min_len |-> None, max_len |-> None]

ArrayAggregator_init ==
    [TYPE_NAME |-> "array", items |-> ValueAggregator_init,
     min_len |-> None, max_len |-> None]

StringAggregator_init == [TYPE_NAME |-> "str", values |-> <<>>]

IntegerAggregator_init == [TYPE_NAME |-> "int", values |-> <<>>]

FloatAggregator_init == [TYPE_NAME |-> "float", values |-> <<>>]

BooleanAggregator_init == [TYPE_NAME |-> "bool", true |-> 0, false |-> 0]

NullAggregator_init == [TYPE_NAME |-> "null"]

\* ValueAggregator.AGGREGATORS[tn]()
AGGREGATORS(tn) ==
    CASE tn = "dict" -> DictAggregator_init
      [] tn = "list" -> ArrayAggregator_init
      [] tn = "int" -> IntegerAggregator_init
      [] tn = "float" -> FloatAggregator_init
      [] tn = "str" -> StringAggregator_init
      [] tn = "bool" -> BooleanAggregator_init
      [] tn = "NoneType" -> NullAggregator_init

\* Index of key in a dict kept as a sequence of records with field k; 0 when
\* absent.
IndexOf(d, key) ==
    IF \E i \in 1..Len(d) : d[i].k = key
    THEN CHOOSE i \in 1..Len(d) : d[i].k = key
    ELSE 0

\* ------------------------------------------------------------------- add
StringAggregator_add(self, value) ==
    [self EXCEPT !.values = Append(@, value)]

NumberAggregator_add(self, value) ==
    [self EXCEPT !.values = Append(@, value)]

BooleanAggregator_add(self, value) ==
    IF value.b
    THEN [self EXCEPT !.true = @ + 1]
    ELSE [self EXCEPT !.false = @ + 1]

NullAggregator_add(self, value) == self

RECURSIVE ValueAggregator_add(_, _)
RECURSIVE DictAggregator_add_items(_, _)
RECURSIVE ArrayAggregator_add_items(_, _)

\* for k, v in obj.items(): self.keys[k].add(v), keys a defaultdict.
DictAggregator_add_items(keys, items) ==
    IF items = <<>> THEN keys
    ELSE LET k == Head(items)[1]
             val == Head(items)[2]
             i == IndexOf(keys, k)
             keys1 == IF i = 0
                      THEN Append(keys, [k |-> k, agg |-> ValueAggregator_init])
                      ELSE keys
             j == IF i = 0 THEN Len(keys1) ELSE i
             keys2 == [keys1 EXCEPT ![j].agg = ValueAggregator_add(@, val)]
         IN DictAggregator_add_items(keys2, Tail(items))

DictAggregator_add(self, obj) ==
    LET l == Len(obj.d)
    IN [self EXCEPT
          !.min_len = IF @ = None \/ l < @ THEN l ELSE @,
          !.max_len = IF @ = None \/ l > @ THEN l ELSE @,
          !.keys = DictAggregator_add_items(@, obj.d)]

\* for v in a: self.items.add(v)
ArrayAggregator_add_items(items, a) ==
    IF a = <<>> THEN items
    ELSE ArrayAggregator_add_items(ValueAggregator_add(items, Head(a)), Tail(a))

\* ArrayAggregator.add with max_len updated by min, as min_len is.
ArrayAggregator_add_max_by_min(self, a) ==
    LET n == Len(a.a)
    IN [self EXCEPT
          !.min_len = IF @ = None THEN n ELSE IF @ < n THEN @ ELSE n,
          !.max_len = IF @ = None THEN n ELSE IF @ < n THEN @ ELSE n,
          !.items = ArrayAggregator_add_items(@, a.a)]

ArrayAggregator_add(self, a) ==
    LET n == Len(a.a)
    IN [self EXCEPT
          !.min_len = IF @ = None THEN n ELSE IF @ < n THEN @ ELSE n,
          !.max_len = IF @ = None THEN n ELSE IF @ > n THEN @ ELSE n,
          !.items = ArrayAggregator_add_items(@, a.a)]

\* agg.add(v): the method of agg's class.
Aggregator_add(agg, val) ==
    CASE agg.TYPE_NAME = "map" -> DictAggregator_add(agg, val)
      [] agg.TYPE_NAME = "array" -> ArrayAggregator_add(agg, val)
      [] agg.TYPE_NAME = "str" -> StringAggregator_add(agg, val)
      [] agg.TYPE_NAME \in {"int", "float"} -> NumberAggregator_add(agg, val)
      [] agg.TYPE_NAME = "bool" -> BooleanAggregator_add(agg, val)
      [] agg.TYPE_NAME = "null" -> NullAggregator_add(agg, val)

\* ValueAggregator.add with the count of a kind's first value lost: the
\* increment done only for a kind that was already registered.
ValueAggregator_add_first_lost(self, val) ==
    LET tn == val.t
        i == IndexOf(self.by_type, tn)
        by1 == IF i = 0
               THEN Append(self.by_type,
                           [k |-> tn, agg |-> AGGREGATORS(tn) @@ [cnt |-> 0]])
               ELSE self.by_type
        j == IF i = 0 THEN Len(by1) ELSE i
        agg1 == Aggregator_add(by1[j].agg, val)
        agg2 == IF i = 0 THEN agg1 ELSE [agg1 EXCEPT !.cnt = @ + 1]
    IN [self EXCEPT !.by_type = [by1 EXCEPT ![j].agg = agg2]]

ValueAggregator_add(self, val) ==
    LET tn == val.t
        i == IndexOf(self.by_type, tn)
        by1 == IF i = 0
               THEN Append(self.by_type,
                           [k |-> tn, agg |-> AGGREGATORS(tn) @@ [cnt |-> 0]])
               ELSE self.by_type
        j == IF i = 0 THEN Len(by1) ELSE i
        agg1 == Aggregator_add(by1[j].agg, val)
        agg2 == [agg1 EXCEPT !.cnt = @ + 1]
    IN [self EXCEPT !.by_type = [by1 EXCEPT ![j].agg = agg2]]

\* --------------------------------------------------------------- __str__
\* d after the loop "for v in self.values: d[v] += 1": the distinct values
\* in the order of their first occurrence, each with its count.  The key
\* kept for equal values is the one inserted first.
RECURSIVE CountValues(_, _)
CountValues(d, values) ==
    IF values = <<>> THEN d
    ELSE LET x == Head(values)
             hit == {i \in 1..Len(d) : PyEq(d[i].k, x)}
         IN IF hit = {}
            THEN CountValues(Append(d, [k |-> x, c |-> 1]), Tail(values))
            ELSE LET i == CHOOSE i \in hit : TRUE
                 IN CountValues([d EXCEPT ![i].c = @ + 1], Tail(values))

\* The sort key with the count not negated: the rarest value first.
SortKeyLess_count_ascending(a, b) ==
    a.c < b.c \/ (a.c = b.c /\ PyLess(a.k, b.k))

\* key(a) < key(b) for key=lambda x: (-x[1], x[0])
SortKeyLess(a, b) == a.c > b.c \/ (a.c = b.c /\ PyLess(a.k, b.k))

\* sorted(d.items(), key=lambda x: (-x[1], x[0])): a stable insertion sort.
RECURSIVE InsertItem(_, _)
InsertItem(srt, x) ==
    IF srt = <<>> THEN <<x>>
    ELSE IF SortKeyLess(x, Head(srt)) THEN <<x>> \o srt
    ELSE <<Head(srt)>> \o InsertItem(Tail(srt), x)

RECURSIVE SortedItems(_)
SortedItems(d) ==
    IF d = <<>> THEN <<>>
    ELSE InsertItem(SortedItems(SubSeq(d, 1, Len(d) - 1)), d[Len(d)])

\* sum(c for v, c in items)
RECURSIVE SumCounts(_)
SumCounts(items) ==
    IF items = <<>> THEN 0 ELSE Head(items).c + SumCounts(Tail(items))

\* min(values): the first of the smallest values.
RECURSIVE PyMin(_)
PyMin(values) ==
    IF Len(values) = 1 THEN values[1]
    ELSE LET m == PyMin(SubSeq(values, 1, Len(values) - 1))
             x == values[Len(values)]
         IN IF PyLess(x, m) THEN x ELSE m

\* max(values): the first of the largest values.
RECURSIVE PyMax(_)
PyMax(values) ==
    IF Len(values) = 1 THEN values[1]
    ELSE LET m == PyMax(SubSeq(values, 1, Len(values) - 1))
             x == values[Len(values)]
         IN IF PyLess(m, x) THEN x ELSE m

StringAggregator_str(self) ==
    LET d == CountValues(<<>>, self.values)
        sorted_items == SortedItems(d)
        n == IF Len(d) < MAX_VALUES_TO_SHOW THEN Len(d) ELSE MAX_VALUES_TO_SHOW
        text_values ==
            [i \in 1..n |->
                Ccnt(sorted_items[i].c) \o <<Times>> \o Cstr(sorted_items[i].k.s)]
        other_c == SumCounts(SubSeq(sorted_items, n + 1, Len(d)))
    IN IF Len(d) = 1 THEN Cstr(d[1].k.s)
       ELSE IF other_c = 0 THEN Join(CommaSpace, text_values)
       ELSE Ccnt(Len(d)) \o <<LeftArrow, "|">> \o Cstr(PyMin(self.values).s)
            \o <<Ellipsis>> \o Cstr(PyMax(self.values).s) \o <<"|", ":", " ">>
            \o Join(CommaSpace,
                    Append(text_values, Ccnt(other_c) \o <<Times, Ellipsis>>))

NumberAggregator_str(self) ==
    LET d == CountValues(<<>>, self.values)
        sorted_items == SortedItems(d)
        n == IF Len(d) < MAX_VALUES_TO_SHOW THEN Len(d) ELSE MAX_VALUES_TO_SHOW
        text_values ==
            [i \in 1..n |->
                Ccnt(sorted_items[i].c) \o <<Times>> \o Cnum(sorted_items[i].k)]
        other_c == SumCounts(SubSeq(sorted_items, n + 1, Len(d)))
    IN IF Len(d) = 1 THEN Cnum(d[1].k)
       ELSE IF other_c = 0 THEN Join(CommaSpace, text_values)
       ELSE Ccnt(Len(d)) \o <<LeftArrow, "|">> \o Cnum(PyMin(self.values))
            \o <<Ellipsis>> \o Cnum(PyMax(self.values)) \o <<"|", ":", " ">>
            \o Join(CommaSpace,
                    Append(text_values, Ccnt(other_c) \o <<Times, Ellipsis>>))

DictAggregator_str(self) ==
    LET cnt == IF self.min_len = self.max_len
               THEN Ccnt(self.min_len)
               ELSE Ccnt(self.min_len) \o <<Ellipsis>> \o Ccnt(self.max_len)
    IN cnt \o <<" ", "keys">>

ArrayAggregator_str(self) ==
    LET cnt == IF self.min_len = self.max_len
               THEN Ccnt(self.min_len)
               ELSE Ccnt(self.min_len) \o <<Ellipsis>> \o Ccnt(self.max_len)
    IN cnt \o <<" ", "items">>

BooleanAggregator_str(self) ==
    IF self.false = 0 THEN Cbool(TRUE)
    ELSE IF self.true = 0 THEN Cbool(FALSE)
    ELSE Ccnt(self.false) \o <<Times>> \o Cbool(FALSE) \o CommaSpace
         \o Ccnt(self.true) \o <<Times>> \o Cbool(TRUE)

NullAggregator_str(self) == <<"null">>

\* str(agg): the method of agg's class.
Aggregator_str(agg) ==
    CASE agg.TYPE_NAME = "map" -> DictAggregator_str(agg)
      [] agg.TYPE_NAME = "array" -> ArrayAggregator_str(agg)
      [] agg.TYPE_NAME = "str" -> StringAggregator_str(agg)
      [] agg.TYPE_NAME \in {"int", "float"} -> NumberAggregator_str(agg)
      [] agg.TYPE_NAME = "bool" -> BooleanAggregator_str(agg)
      [] agg.TYPE_NAME = "null" -> NullAggregator_str(agg)

\* sorted(self.by_type.items(), key=lambda x: (x[1], x[0])).  The key of an
\* item starts with its aggregator; two aggregators are never equal (object
\* identity) and their classes define no ordering, so the first comparison
\* sorted makes raises TypeError.  A list of fewer than two items is returned
\* without any comparison.
SortedByType(by_type) ==
    IF Len(by_type) < 2
    THEN [err |-> FALSE, items |-> by_type]
    ELSE [err |-> TRUE, items |-> <<>>]

ValueAggregator_str(self) ==
    LET srt == SortedByType(self.by_type)
        parts == [i \in 1..Len(srt.items) |->
                    Ccnt(srt.items[i].agg.cnt) \o <<Times>>
                    \o Ctype(srt.items[i].agg.TYPE_NAME)
                    \o <<"(">> \o Aggregator_str(srt.items[i].agg) \o <<")">>]
    IN IF srt.err
       THEN [err |-> TRUE, s |-> <<>>]
       ELSE [err |-> FALSE, s |-> Join(CommaSpace, parts)]

\* ----------------------------------------------------------------- print
\* A print call gives the lines it wrote and whether it raised.
NoLines == [err |-> FALSE, lines |-> <<>>]

\* sorted(self.keys.items()): the keys are distinct, so the items are
\* ordered by key alone.
RECURSIVE InsertKey(_, _)
InsertKey(srt, x) ==
    IF srt = <<>> THEN <<x>>
    ELSE IF StrLess(x.k, Head(srt).k) THEN <<x>> \o srt
    ELSE <<Head(srt)>> \o InsertKey(Tail(srt), x)

RECURSIVE SortedKeys(_)
SortedKeys(keys) ==
    IF keys = <<>> THEN <<>>
    ELSE InsertKey(SortedKeys(SubSeq(keys, 1, Len(keys) - 1)), keys[Len(keys)])

\* A statement that wrote a line, or raised before writing it because
\* str(agg) raised inside the f-string.
PrintLine(p, s) ==
    IF s.err
    THEN [err |-> TRUE, lines |-> <<>>]
    ELSE [err |-> FALSE, lines |-> <<p \o <<":", " ">> \o s.s>>]

\* Two statements in sequence: the second runs unless the first raised.
Then(r, rest) ==
    IF r.err THEN r ELSE [err |-> rest.err, lines |-> r.lines \o rest.lines]

RECURSIVE ValueAggregator_print_loop(_, _)
RECURSIVE DictAggregator_print_loop(_, _)

ValueAggregator_print(self, prefix) ==
    ValueAggregator_print_loop(self.by_type, prefix)

\* The body of the loop of DictAggregator.print for one item.
DictAggregator_print_item(item, p) ==
    Then(PrintLine(p, ValueAggregator_str(item.agg)),
         ValueAggregator_print(item.agg, p))

\* The loop of DictAggregator.print over the sorted items still to print.
DictAggregator_print_loop(items, prefix) ==
    IF items = <<>> THEN NoLines
    ELSE Then(DictAggregator_print_item(
                  Head(items), prefix \o <<".">> \o Ckey(Head(items).k)),
              DictAggregator_print_loop(Tail(items), prefix))

DictAggregator_print(self, prefix) ==
    DictAggregator_print_loop(SortedKeys(self.keys), prefix)

ArrayAggregator_print_items(items, p) ==
    Then(PrintLine(p, ValueAggregator_str(items)),
         ValueAggregator_print(items, p))

ArrayAggregator_print(self, prefix) ==
    ArrayAggregator_print_items(self.items, prefix \o <<"[", "]">>)

BaseAggregator_print(self, prefix) == NoLines

\* agg.print(prefix): the method of agg's class.
Aggregator_print(agg, prefix) ==
    CASE agg.TYPE_NAME = "map" -> DictAggregator_print(agg, prefix)
      [] agg.TYPE_NAME = "array" -> ArrayAggregator_print(agg, prefix)
      [] OTHER -> BaseAggregator_print(agg, prefix)

\* for t, agg in self.by_type.items(): agg.print(prefix), in the insertion
\* order of the dict.
ValueAggregator_print_loop(by_type, prefix) ==
    IF by_type = <<>> THEN NoLines
    ELSE Then(Aggregator_print(Head(by_type).agg, prefix),
              ValueAggregator_print_loop(Tail(by_type), prefix))

\* ------------------------------------------------------------------ main
\* What json.loads gives for the lines standard input may hold; Invalid is
\* a line it rejects.
A == <<"a">>
B == <<"b">>

Lines ==
    { JInt(1), JStr(A), JBool(TRUE), JNull, JFloat(1, FALSE),
      JList(<<JInt(1), JInt(2), JInt(3)>>),
      JList(<<JInt(4), JInt(5)>>),
      JList(<<>>),
      JList(<<JDict(<<<<A, JInt(1)>>>>), JList(<<JInt(2)>>)>>),
      JDict(<<<<A, JInt(1)>>, <<B, JInt(2)>>>>),
      JDict(<<<<B, JInt(2)>>, <<A, JInt(1)>>>>),
      JDict(<<<<A, JStr(A)>>, <<B, JList(<<JInt(1), JBool(TRUE)>>)>>>>),
      JDict(<<<<B, JDict(<<<<A, JNull>>>>)>>>>),
      Invalid }

\* The harnesses' variables, unused by main.
harness == <<leaf, text, s_in, s_out>>

HarnessIdle ==
    /\ leaf = NullAggregator_init
    /\ text = <<>>
    /\ s_in = <<>>
    /\ s_out = <<>>

\* main() before the loop: v = ValueAggregator(), nothing read or printed.
\* stdin holds the lines read so far.
Init ==
    /\ stdin = <<>>
    /\ v = ValueAggregator_init
    /\ out = <<>>
    /\ pc = "loop"
    /\ exc = "none"
    /\ HarnessIdle

\* The loop of main with an invalid line skipped instead of ending the run.
main_loop_skip_invalid ==
    /\ pc = "loop"
    /\ Len(stdin) < MaxLines
    /\ \E line \in Lines :
          /\ stdin' = Append(stdin, line)
          /\ IF line.t = "invalid"
             THEN v' = v
             ELSE v' = ValueAggregator_add(v, line)
    /\ UNCHANGED <<pc, exc, out, harness>>

\* One iteration of "for line in sys.stdin": json.loads, which raises on an
\* invalid line and so ends main, then v.add.
main_loop ==
    /\ pc = "loop"
    /\ Len(stdin) < MaxLines
    /\ \E line \in Lines :
          /\ stdin' = Append(stdin, line)
          /\ IF line.t = "invalid"
             THEN /\ pc' = "error"
                  /\ exc' = "JSONDecodeError"
                  /\ v' = v
             ELSE /\ v' = ValueAggregator_add(v, line)
                  /\ UNCHANGED <<pc, exc>>
    /\ UNCHANGED <<out, harness>>

\* End of input: v.print() after the loop.  A TypeError raised while
\* printing ends main with the lines written so far on standard output.
main_print ==
    /\ pc = "loop"
    /\ LET r == ValueAggregator_print(v, <<>>)
       IN /\ out' = r.lines
          /\ pc' = IF r.err THEN "error" ELSE "done"
          /\ exc' = IF r.err THEN "TypeError" ELSE exc
    /\ UNCHANGED <<stdin, v, harness>>

Next == main_loop \/ main_print

Spec == Init /\ [][Next]_vars

\* ------------------------------------------- a leaf aggregator on its own
\* SpecLeaf: one StringAggregator, IntegerAggregator or FloatAggregator is
\* constructed, receives values of its kind and is rendered once, as the
\* aggregator of a key or of an array's items is by main.
StrValues == {JStr(A), JStr(B), JStr(<<"a", "b">>), JStr(<<"\"">>)}

IntValues == {JInt(0 - 1), JInt(2), JInt(3), JInt(10)}

FloatValues ==
    {JFloat(0, FALSE), JFloat(0, TRUE), JFloat(1, FALSE), JFloat(2, FALSE),
     JFloat(0 - 1, TRUE)}

LeafInit ==
    /\ leaf \in {StringAggregator_init, IntegerAggregator_init,
                 FloatAggregator_init}
    /\ text = <<>>
    /\ pc = "loop"
    /\ stdin = <<>>
    /\ v = ValueAggregator_init
    /\ out = <<>>
    /\ exc = "none"
    /\ s_in = <<>>
    /\ s_out = <<>>

leaf_add_str ==
    /\ pc = "loop"
    /\ leaf.TYPE_NAME = "str"
    /\ Len(leaf.values) < MaxAdds
    /\ \E value \in StrValues : leaf' = StringAggregator_add(leaf, value)
    /\ UNCHANGED <<stdin, v, out, pc, exc, text, s_in, s_out>>

leaf_add_number ==
    /\ pc = "loop"
    /\ leaf.TYPE_NAME \in {"int", "float"}
    /\ Len(leaf.values) < MaxAdds
    /\ \E value \in IF leaf.TYPE_NAME = "int" THEN IntValues ELSE FloatValues :
          leaf' = NumberAggregator_add(leaf, value)
    /\ UNCHANGED <<stdin, v, out, pc, exc, text, s_in, s_out>>

\* str(leaf), of an aggregator that has received a value.
leaf_str ==
    /\ pc = "loop"
    /\ leaf.values # <<>>
    /\ text' = Aggregator_str(leaf)
    /\ pc' = "done"
    /\ UNCHANGED <<stdin, v, out, exc, leaf, s_in, s_out>>

LeafNext == leaf_add_str \/ leaf_add_number \/ leaf_str

SpecLeaf == LeafInit /\ [][LeafNext]_vars

\* ------------------------------------------------------- Cstr on its own
\* SpecCstr: Cstr is called once, on a string made of a run of one character
\* (of up to MAX_STRING_LENGTH + MaxExtra characters) followed by a run of
\* another.
Chars == {"a", "b", "\"", "\\", "\n"}

Run(c, n) == [i \in 1..n |-> c]

CstrInputs ==
    {Run(c1, n) \o Run(c2, m) :
        c1 \in Chars, c2 \in Chars,
        n \in 0..(MAX_STRING_LENGTH + MaxExtra), m \in 0..(MaxExtra + 1)}

CstrInit ==
    /\ s_in = <<>>
    /\ s_out = <<>>
    /\ pc = "loop"
    /\ stdin = <<>>
    /\ v = ValueAggregator_init
    /\ out = <<>>
    /\ exc = "none"
    /\ leaf = NullAggregator_init
    /\ text = <<>>

Cstr_call ==
    /\ pc = "loop"
    /\ \E s \in CstrInputs :
          /\ s_in' = s
          /\ s_out' = Cstr(s)
    /\ pc' = "done"
    /\ UNCHANGED <<stdin, v, out, exc, leaf, text>>

CstrNext == Cstr_call

SpecCstr == CstrInit /\ [][CstrNext]_vars

\* ======================================================================
\* Properties
\* ======================================================================

\* The values main has passed to v.add: the lines read, without the invalid
\* line that ended the run.
IsValid(line) == line.t # "invalid"

Added == SelectSeq(stdin, IsValid)

\* The step from a ValueAggregator to the one of an array's items.
ItemsStep == <<"[]">>

\* The paths of the ValueAggregators of the tree under va: a path is the
\* sequence of keys and ItemsStep that leads from va to the aggregator.
RECURSIVE Paths(_)
PathsOfKind(e) ==
    CASE e.agg.TYPE_NAME = "map" ->
            UNION {{<<e.agg.keys[i].k>> \o p : p \in Paths(e.agg.keys[i].agg)} :
                      i \in DOMAIN e.agg.keys}
      [] e.agg.TYPE_NAME = "array" ->
            {<<ItemsStep>> \o p : p \in Paths(e.agg.items)}
      [] OTHER -> {}

Paths(va) ==
    {<<>>} \cup UNION {PathsOfKind(va.by_type[i]) : i \in DOMAIN va.by_type}

\* The ValueAggregator at path p under va.
RECURSIVE NodeAt(_, _)
NodeAt(va, p) ==
    IF p = <<>> THEN va
    ELSE IF Head(p) = ItemsStep
    THEN NodeAt(va.by_type[IndexOf(va.by_type, "list")].agg.items, Tail(p))
    ELSE NodeAt(
            va.by_type[IndexOf(va.by_type, "dict")].agg.keys[
                IndexOf(va.by_type[IndexOf(va.by_type, "dict")].agg.keys,
                        Head(p))].agg,
            Tail(p))

\* The values found one step below the values vals, in order: the value of
\* key step in every dict that has it, or every element of every list.
RECURSIVE ValueOfKey(_, _)
ValueOfKey(items, key) ==
    IF items = <<>> THEN <<>>
    ELSE IF Head(items)[1] = key THEN <<Head(items)[2]>>
    ELSE ValueOfKey(Tail(items), key)

Below(val, step) ==
    IF step = ItemsStep
    THEN IF val.t = "list" THEN val.a ELSE <<>>
    ELSE IF val.t = "dict" THEN ValueOfKey(val.d, step) ELSE <<>>

RECURSIVE BelowAll(_, _)
BelowAll(vals, step) ==
    IF vals = <<>> THEN <<>>
    ELSE Below(Head(vals), step) \o BelowAll(Tail(vals), step)

\* The values of the input that lie at path p, in input order: what the
\* aggregator at p must have been given.
RECURSIVE Routed(_, _)
Routed(vals, p) ==
    IF p = <<>> THEN vals ELSE Routed(BelowAll(vals, Head(p)), Tail(p))

TypeNames == {"dict", "list", "int", "float", "str", "bool", "NoneType"}

KindCount(vals, tn) == Cardinality({i \in DOMAIN vals : vals[i].t = tn})

\* The <<path, kind>> pairs registered in the tree under va.
KindsAt(va, p) ==
    {<<p, NodeAt(va, p).by_type[i].k>> : i \in DOMAIN NodeAt(va, p).by_type}

Registered(va) == UNION {KindsAt(va, p) : p \in Paths(va)}

\* ---------------------------------------------------------------- C2
\* At the ValueAggregator at path p: at most one sub-aggregator per kind,
\* and the count of each registered kind is the number of values of that
\* kind the input holds at p.
KindsCounted(p) ==
    \A tn \in TypeNames :
        /\ Cardinality({i \in DOMAIN NodeAt(v, p).by_type :
                           NodeAt(v, p).by_type[i].k = tn}) <= 1
        /\ \A i \in DOMAIN NodeAt(v, p).by_type :
              NodeAt(v, p).by_type[i].k = tn =>
                 NodeAt(v, p).by_type[i].agg.cnt
                    = KindCount(Routed(Added, p), tn)

\* C2: whatever supported values have been added, every ValueAggregator of
\* the tree has at most one sub-aggregator per kind, with a count equal to
\* the number of add calls it received with a value of that kind (bool, int
\* and float each counted on their own), and no step removes a registered
\* kind.
C2_KindRegistry ==
    /\ [](\A p \in Paths(v) : KindsCounted(p))
    /\ [][Registered(v) \subseteq Registered(v')]_vars

\* A bool and an int were added at the root, each counted under its own
\* kind, and a nested aggregator has counted two values of one kind.
C2_Witness ==
    /\ \E i \in DOMAIN v.by_type :
          v.by_type[i].k = "bool" /\ v.by_type[i].agg.cnt = 1
    /\ \E i \in DOMAIN v.by_type :
          v.by_type[i].k = "int" /\ v.by_type[i].agg.cnt = 1
    /\ \E p \in Paths(v) :
          /\ p # <<>>
          /\ \E i \in DOMAIN NodeAt(v, p).by_type :
                NodeAt(v, p).by_type[i].agg.cnt >= 2

\* ---------------------------------------------------------------- C6
IsList(val) == val.t = "list"

RECURSIVE SumLen(_)
SumLen(arrays) ==
    IF arrays = <<>> THEN 0 ELSE Len(Head(arrays).a) + SumLen(Tail(arrays))

Lengths(arrays) == {Len(arrays[i].a) : i \in DOMAIN arrays}

\* The number of add calls a ValueAggregator has received.
RECURSIVE SumCnt(_)
SumCnt(by_type) ==
    IF by_type = <<>> THEN 0
    ELSE Head(by_type).agg.cnt + SumCnt(Tail(by_type))

ArrayCounted(agg, arrays) ==
    /\ SumCnt(agg.items.by_type) = SumLen(arrays)
    /\ agg.min_len \in Lengths(arrays)
    /\ agg.max_len \in Lengths(arrays)
    /\ \A n \in Lengths(arrays) : agg.min_len <= n /\ n <= agg.max_len

\* C6: for every ArrayAggregator of the tree, the pooled items aggregator
\* has received as many add calls as the arrays added have elements in
\* all, and min_len and max_len are the smallest and the largest length
\* among those arrays.
C6_ArrayPooling ==
    \A p \in Paths(v) :
        \A i \in DOMAIN NodeAt(v, p).by_type :
            NodeAt(v, p).by_type[i].k = "list" =>
                ArrayCounted(NodeAt(v, p).by_type[i].agg,
                             SelectSeq(Routed(Added, p), IsList))

\* The arrays [1,2,3] and [4,5] were added at the root: five elements
\* pooled, lengths from 2 to 3.
C6_Witness ==
    \E i \in DOMAIN v.by_type :
        /\ v.by_type[i].k = "list"
        /\ v.by_type[i].agg.cnt = 2
        /\ v.by_type[i].agg.min_len = 2
        /\ v.by_type[i].agg.max_len = 3
        /\ SumCnt(v.by_type[i].agg.items.by_type) = 5

\* --------------------------------------------------------------- C10
\* v after the values vals have been added to va in order.
RECURSIVE AddAll(_, _)
AddAll(va, vals) ==
    IF vals = <<>> THEN va
    ELSE AddAll(ValueAggregator_add(va, Head(vals)), Tail(vals))

\* C10: report lines exist only once every line read was decoded and
\* absorbed and the loop is over; a line that fails to decode ends the run
\* with an error, with exactly the lines before it absorbed and nothing
\* printed; and once the run is over (printed, or failed) nothing more is
\* absorbed or printed.
C10_PrintOnceAfterInput ==
    /\ [](out # <<>> =>
            /\ pc # "loop"
            /\ exc # "JSONDecodeError"
            /\ Added = stdin
            /\ v = AddAll(ValueAggregator_init, stdin))
    /\ [](exc = "JSONDecodeError" =>
            /\ pc = "error"
            /\ out = <<>>
            /\ ~IsValid(stdin[Len(stdin)])
            /\ Added = SubSeq(stdin, 1, Len(stdin) - 1)
            /\ v = AddAll(ValueAggregator_init, Added))
    /\ [][pc # "loop" => UNCHANGED <<stdin, v, out, pc, exc>>]_vars

\* The second line failed to decode after a first line was absorbed.
C10_Witness ==
    /\ exc = "JSONDecodeError"
    /\ Len(stdin) = 2
    /\ v.by_type # <<>>
    /\ out = <<>>

\* ---------------------------------------------------------------- C1
\* C1: after a run over at least one line, all decoded, the report starts
\* with a line holding str(v) of the root aggregator, and the lines of
\* v.print() follow it.
C1_ReportStartsWithRootRender ==
    (pc = "done" /\ stdin # <<>>) =>
        /\ out # <<>>
        /\ out[1] = ValueAggregator_str(v).s
        /\ Tail(out) = ValueAggregator_print(v, <<>>).lines

\* ---------------------------------------------------------------- C3
\* Position of a kind tag in ascending order of the tags.
TagRank(tn) ==
    CASE tn = "NoneType" -> 1
      [] tn = "bool" -> 2
      [] tn = "dict" -> 3
      [] tn = "float" -> 4
      [] tn = "int" -> 5
      [] tn = "list" -> 6
      [] tn = "str" -> 7

\* Entry a comes before entry b: by count ascending, then by tag ascending.
EntryBefore(a, b) ==
    a.agg.cnt < b.agg.cnt \/ (a.agg.cnt = b.agg.cnt /\ TagRank(a.k) < TagRank(b.k))

\* The entry of by_type that has n - 1 entries before it.
EntryAt(by_type, n) ==
    by_type[CHOOSE i \in DOMAIN by_type :
               Cardinality({j \in DOMAIN by_type :
                               EntryBefore(by_type[j], by_type[i])}) = n - 1]

RenderedEntry(e) ==
    Ccnt(e.agg.cnt) \o <<Times>> \o Ctype(e.agg.TYPE_NAME)
    \o <<"(">> \o Aggregator_str(e.agg) \o <<")">>

\* One entry per present kind, rarest first, joined by ", ".
EntriesInOrder(by_type) ==
    Join(CommaSpace,
         [n \in DOMAIN by_type |-> RenderedEntry(EntryAt(by_type, n))])

\* C3: str of every ValueAggregator of the tree, whatever the number of
\* kinds it holds, returns one entry count*KIND(summary) per present kind,
\* ordered by count ascending and then by kind tag ascending, joined by
\* ", ".
C3_RenderListsEveryKind ==
    \A p \in Paths(v) :
        /\ ~ValueAggregator_str(NodeAt(v, p)).err
        /\ ValueAggregator_str(NodeAt(v, p)).s
              = EntriesInOrder(NodeAt(v, p).by_type)

\* ---------------------------------------------------------------- C7
\* The lines the claim gives for the keys K of a DictAggregator, smallest
\* key first: the line of the key, then the lines its aggregator prints.
SmallestKey(K) == CHOOSE k \in K : \A k2 \in K \ {k} : StrLess(k, k2)

KeyLines(keys, prefix, k) ==
    <<prefix \o <<".">> \o k \o <<":", " ">>
        \o ValueAggregator_str(keys[IndexOf(keys, k)].agg).s>>
    \o ValueAggregator_print(keys[IndexOf(keys, k)].agg,
                             prefix \o <<".">> \o k).lines

RECURSIVE LinesInKeyOrder(_, _, _)
LinesInKeyOrder(keys, prefix, K) ==
    IF K = {} THEN <<>>
    ELSE KeyLines(keys, prefix, SmallestKey(K))
         \o LinesInKeyOrder(keys, prefix, K \ {SmallestKey(K)})

\* A line with the items of a dict at its top level in reverse order.
Reverse(q) == [i \in DOMAIN q |-> q[Len(q) + 1 - i]]

ReverseKeys(line) == IF line.t = "dict" THEN JDict(Reverse(line.d)) ELSE line

KeysReversed(ls) == [i \in DOMAIN ls |-> ReverseKeys(ls[i])]

\* C7: when only maps were read, the report holds, for each key of the
\* root DictAggregator in ascending key order, the line of the key followed
\* by the lines of its aggregator, and the same maps with their keys in
\* another order give the same report.
C7_KeysPrintedInOrder ==
    (pc # "loop" /\ exc # "JSONDecodeError" /\ Len(v.by_type) = 1
        /\ v.by_type[1].k = "dict") =>
        /\ out = LinesInKeyOrder(
                    v.by_type[1].agg.keys, <<>>,
                    {v.by_type[1].agg.keys[i].k :
                        i \in DOMAIN v.by_type[1].agg.keys})
        /\ out = ValueAggregator_print(
                    AddAll(ValueAggregator_init, KeysReversed(stdin)),
                    <<>>).lines

\* ---------------------------------------------------------------- C8
\* The lines q with those at i and i + 1 exchanged.
SwapAt(q, i) ==
    [j \in DOMAIN q |-> IF j = i THEN q[i + 1] ELSE IF j = i + 1 THEN q[i] ELSE q[j]]

PrintAfter(ls) ==
    ValueAggregator_print(AddAll(ValueAggregator_init, ls), <<>>)

\* C8: the lines v.print() writes do not depend on the order in which the
\* kinds were registered: the same values added in another order give the
\* same lines in the same order.  Stated for the runs that print without
\* an exception in both orders.
C8_PrintIgnoresKindOrder ==
    pc = "done" =>
        \A i \in 1..(Len(stdin) - 1) :
            ~PrintAfter(SwapAt(stdin, i)).err =>
                PrintAfter(SwapAt(stdin, i)).lines = out

\* ---------------------------------------------------------------- C4
\* One value for each class of equal values among vals (of the two float
\* zeros, the positive one).
Canon(x) == IF x.t = "float" /\ x.f = 0 THEN JFloat(0, FALSE) ELSE x

Distinct(vals) == {Canon(vals[i]) : i \in DOMAIN vals}

Occurrences(vals, x) == Cardinality({i \in DOMAIN vals : PyEq(vals[i], x)})

\* y comes before x: more frequent, or as frequent and smaller.
ShownBefore(vals, y, x) ==
    \/ Occurrences(vals, y) > Occurrences(vals, x)
    \/ Occurrences(vals, y) = Occurrences(vals, x) /\ PyLess(y, x)

\* The distinct value that has n - 1 distinct values before it.
ValueAt(vals, n) ==
    CHOOSE x \in Distinct(vals) :
        Cardinality({y \in Distinct(vals) : ShownBefore(vals, y, x)}) = n - 1

Smallest(vals) ==
    CHOOSE x \in Distinct(vals) : \A y \in Distinct(vals) : ~PyLess(y, x)

Largest(vals) ==
    CHOOSE x \in Distinct(vals) : \A y \in Distinct(vals) : ~PyLess(x, y)

Shown(x) == IF x.t = "str" THEN Cstr(x.s) ELSE Cnum(x)

NumShown(vals) ==
    IF Cardinality(Distinct(vals)) > 3 THEN 3 ELSE Cardinality(Distinct(vals))

ShownEntries(vals) ==
    [n \in 1..NumShown(vals) |->
        Ccnt(Occurrences(vals, ValueAt(vals, n))) \o <<Times>>
        \o Shown(ValueAt(vals, n))]

RECURSIVE ShownTotal(_, _)
ShownTotal(vals, n) ==
    IF n = 0 THEN 0
    ELSE Occurrences(vals, ValueAt(vals, n)) + ShownTotal(vals, n - 1)

\* The text the claim gives for two or more distinct values.
Summary(vals) ==
    IF Cardinality(Distinct(vals)) > 3
    THEN Ccnt(Cardinality(Distinct(vals))) \o <<LeftArrow, "|">>
         \o Shown(Smallest(vals)) \o <<Ellipsis>> \o Shown(Largest(vals))
         \o <<"|", ":", " ">>
         \o Join(CommaSpace,
                 Append(ShownEntries(vals),
                        Ccnt(Len(vals) - ShownTotal(vals, 3))
                        \o <<Times, Ellipsis>>))
    ELSE Join(CommaSpace, ShownEntries(vals))

\* A text with the two float zeros written alike.
SignOfZeroDropped(txt) ==
    [i \in DOMAIN txt |-> IF txt[i] = "-0.0" THEN "0.0" ELSE txt[i]]

C4_WitnessNoRemainder ==
    /\ pc = "done"
    /\ Cardinality(Distinct(leaf.values)) = 3
    /\ Len(leaf.values) = 5

\* ---------------------------------------------------------------- C5
\* C5: str of a StringAggregator or NumberAggregator depends only on the
\* multiset of the values added: the same values added with two neighbours
\* exchanged (and so in any other order) give the same text.
C5_RenderIgnoresAddOrder ==
    pc = "done" =>
        \A i \in 1..(Len(leaf.values) - 1) :
            Aggregator_str([leaf EXCEPT !.values = SwapAt(@, i)]) = text

\* ---------------------------------------------------------------- C9
\* C9: a string of more than MAX_STRING_LENGTH characters is rendered as
\* the opening quote, its first MAX_STRING_LENGTH characters, the ellipsis
\* and one closing quote, never longer than MAX_STRING_LENGTH + 3; a
\* shorter string is rendered in full, as json.dumps gives it.
C9_TruncatedToFixedWidth ==
    pc = "done" =>
        IF Len(s_in) > MAX_STRING_LENGTH
        THEN /\ s_out = <<"\"">> \o SubSeq(s_in, 1, MAX_STRING_LENGTH)
                          \o <<Ellipsis, "\"">>
             /\ Len(s_out) <= MAX_STRING_LENGTH + 3
        ELSE s_out = json_dumps(s_in)

====
